---- MODULE Spec2Model ----
(***************************************************************************)
(* Model of the crudapp Anchor program (programs/crudapp/src/lib.rs): a    *)
(* journal of entries, each stored in the program derived account whose    *)
(* address is derived from the entry's title and the signer's public key.  *)
(*                                                                         *)
(* One action per instruction.  An action is the whole instruction: the    *)
(* deserialisation of the instruction data, the account validation that    *)
(* the #[derive(Accounts)] struct generates, the handler body and the      *)
(* serialisation of the account on exit.  A failed instruction is rolled   *)
(* back by the runtime, so it changes no account.                          *)
(***************************************************************************)
EXTENDS Integers, Sequences, FiniteSets, TLC

VARIABLES store, lamports, last, nOps

vars == <<store, lamports, last, nOps>>

(* ---------------------------- bounds ----------------------------------- *)

\* the number of instructions of a behaviour
MaxOps == 3

(* ------------------------ program constants ---------------------------- *)

\* size in bytes of a Pubkey (JournalEntryState.owner)
PUBKEY_BYTES == 32
\* the longest seed that find_program_address accepts
MAX_SEED_LEN == 32
\* the account discriminator, the "8" of space = 8 + INIT_SPACE
DISCRIMINATOR == 8
\* #[max_len(50)] of title and #[max_len(1000)] of message
TITLE_MAX_LEN == 50
MESSAGE_MAX_LEN == 1000
\* the length prefix of a Borsh string
STRING_PREFIX == 4
\* the bytes that rent counts for an account on top of its data
ACCOUNT_STORAGE_OVERHEAD == 128

\* JournalEntryState::INIT_SPACE as #[derive(InitSpace)] computes it
INIT_SPACE == PUBKEY_BYTES + (STRING_PREFIX + TITLE_MAX_LEN) + (STRING_PREFIX + MESSAGE_MAX_LEN)

\* space = 8 + JournalEntryState::INIT_SPACE
Space == DISCRIMINATOR + INIT_SPACE

(* ------------------------------ inputs --------------------------------- *)

\* a string of n bytes, all equal to c
Str(c, n) == [i \in 1..n |-> c]

\* a public key: 32 bytes
Pubkey(i) == Str(i, PUBKEY_BYTES)

\* the signers: two wallets
Alice == Pubkey(1)
Bob == Pubkey(2)
Owners == {Alice, Bob}

\* "Day1", and titles of 32, 50 and 51 bytes
Day1 == <<68, 97, 121, 49>>
Titles == {Day1, Str(97, MAX_SEED_LEN), Str(98, TITLE_MAX_LEN), Str(99, TITLE_MAX_LEN + 1)}

\* "hello", messages of 1000 and 1001 bytes, and the shortest message that
\* does not fit in an account next to the title "Day1"
Hello == <<104, 101, 108, 108, 111>>
Messages == {Hello, Str(120, MESSAGE_MAX_LEN), Str(121, MESSAGE_MAX_LEN + 1),
             Str(122, INIT_SPACE - PUBKEY_BYTES - 2 * STRING_PREFIX - Len(Day1) + 1)}

\* the arguments (title, message) of a create or an update: every message
\* with a title that can be a seed, "hello" with the longer titles
Arguments == {a \in Titles \X Messages : Len(a[1]) <= MAX_SEED_LEN \/ a[2] = Hello}

(* --------------------------- pure functions ---------------------------- *)

\* seeds = [title.as_bytes()]: the owner is not a seed
seeds_hash_TitleOnly(title, owner) == title

\* The address of seeds = [title.as_bytes(), owner.key().as_ref()]: a hash of
\* the seeds written one after the other, here the hashed bytes themselves.
seeds_hash(title, owner) == title \o owner

\* Pubkey::try_find_program_address(&[title.as_bytes(), owner.key().as_ref()]):
\* None (<<>>) when a seed is longer than MAX_SEED_LEN, else Some(address).
find_program_address(title, owner) ==
    IF Len(title) > MAX_SEED_LEN \/ Len(owner) > MAX_SEED_LEN
    THEN <<>>
    ELSE <<seeds_hash(title, owner)>>

\* every address of the model
Addresses == {seeds_hash(t, o) : t \in Titles, o \in Owners}

\* the signature of the account type: the first 8 bytes of
\* sha256("account:JournalEntryState")
DISCRIMINATOR_BYTES == <<113, 86, 110, 124, 140, 14, 58, 66>>

\* a u32 in little endian, the length prefix of a Borsh string, and back
LE32(n) == <<n % 256, (n \div 256) % 256, (n \div 65536) % 256, (n \div 16777216) % 256>>
FromLE32(b) == b[1] + 256 * b[2] + 65536 * b[3] + 16777216 * b[4]

\* n zero bytes
Zeros(n) == [i \in 1..n |-> 0]

\* the data of an account that init has just created: space zero bytes
NewData == Zeros(Space)

\* AccountSerialize::try_serialize: the discriminator, then the Borsh
\* encoding of owner, title and message
Serialize(entry) ==
    DISCRIMINATOR_BYTES \o entry.owner \o LE32(Len(entry.title)) \o entry.title
                        \o LE32(Len(entry.message)) \o entry.message

\* number of bytes AccountSerialize::try_serialize writes for an entry
SerializedLen(entry) ==
    DISCRIMINATOR + PUBKEY_BYTES + (STRING_PREFIX + Len(entry.title))
                  + (STRING_PREFIX + Len(entry.message))

\* AccountDeserialize::try_deserialize: the owner, title and message read
\* from the start of the data; the bytes after them are not read
Deserialize(data) ==
    LET titleAt == DISCRIMINATOR + PUBKEY_BYTES
        titleLen == FromLE32(SubSeq(data, titleAt + 1, titleAt + STRING_PREFIX))
        messageAt == titleAt + STRING_PREFIX + titleLen
        messageLen == FromLE32(SubSeq(data, messageAt + 1, messageAt + STRING_PREFIX))
    IN <<SubSeq(data, DISCRIMINATOR + 1, titleAt),
         SubSeq(data, titleAt + STRING_PREFIX + 1, messageAt),
         SubSeq(data, messageAt + STRING_PREFIX + 1, messageAt + STRING_PREFIX + messageLen)>>

\* writing bytes at the start of the data of an account: the data after
\* them stay as they were
Write(data, bytes) == bytes \o SubSeq(data, Len(bytes) + 1, Len(data))

\* an exit that does not look at the size of the data
Exit_NoCheck(entry, space) == "Ok"

\* Account::exit: the entry is written into the account's data; the write
\* fails when the data is too short for it
Exit(entry, space) ==
    IF SerializedLen(entry) > space THEN "AccountDidNotSerialize" ELSE "Ok"

\* an exit that leaves the data of the account as they were loaded
Exited_NoWrite(entry) == entry

\* the account after an exit that succeeded
Exited(entry) == [entry EXCEPT !.data = Write(entry.data, Serialize(entry))]

\* Rent::minimum_balance(space), in units of the rent of one byte: what the
\* payer puts into an account of space bytes
minimum_balance(space) == ACCOUNT_STORAGE_OVERHEAD + space

\* an instruction whose writes stay when it returns an error
Commit_NoRollback(result, before, after) == after

\* The runtime commits what an instruction wrote when it returns Ok(()) and
\* discards it when it returns an error.
Commit(result, before, after) == IF result = "Ok" THEN after ELSE before

(* ----------------------------- create ---------------------------------- *)

\* create_journal_entry storing the address of the entry as its owner
CreateEntry_OwnerIsEntryKey(owner, title, message) ==
    [owner |-> seeds_hash(title, owner), title |-> title, message |-> message, space |-> Space,
     lamports |-> minimum_balance(Space), data |-> NewData]

\* init with space = the size of the entry as it is created
CreateEntry_TightSpace(owner, title, message) ==
    [owner |-> owner, title |-> title, message |-> message,
     space |-> DISCRIMINATOR + PUBKEY_BYTES + STRING_PREFIX + Len(title) + STRING_PREFIX + Len(message),
     lamports |-> minimum_balance(Space),
     data |-> Zeros(DISCRIMINATOR + PUBKEY_BYTES + STRING_PREFIX + Len(title) + STRING_PREFIX + Len(message))]

\* create_journal_entry assigning the message to title and the title to
\* message
CreateEntry_SwapsFields(owner, title, message) ==
    [owner |-> owner, title |-> message, message |-> title, space |-> Space,
     lamports |-> minimum_balance(Space), data |-> NewData]

\* the account that init creates and create_journal_entry fills: space bytes
\* of zeroed data, paid by the owner
CreateEntry(owner, title, message) ==
    [owner |-> owner, title |-> title, message |-> message, space |-> Space,
     lamports |-> minimum_balance(Space), data |-> NewData]

\* CreatelEntry with init_if_needed: an address in use is not refused
CreateResult_InitIfNeeded(owner, journal_entry, title, message) ==
    LET pda == find_program_address(title, owner) IN
    IF pda = <<>> THEN "MaxSeedLengthExceeded"
    ELSE IF journal_entry # pda[1] THEN "ConstraintSeeds"
    ELSE IF lamports[owner] < minimum_balance(Space) THEN "ResultWithNegativeLamports"
    ELSE Exit(CreateEntry(owner, title, message), Space)

\* CreatelEntry refusing a create as soon as any entry exists
CreateResult_AnyInUse(owner, journal_entry, title, message) ==
    LET pda == find_program_address(title, owner) IN
    IF pda = <<>> THEN "MaxSeedLengthExceeded"
    ELSE IF journal_entry # pda[1] THEN "ConstraintSeeds"
    ELSE IF DOMAIN store # {} THEN "AccountAlreadyInUse"
    ELSE IF lamports[owner] < minimum_balance(Space) THEN "ResultWithNegativeLamports"
    ELSE Exit(CreateEntry(owner, title, message), Space)

\* CreatelEntry: the seeds constraint, then init (system program
\* create_account, which refuses an address already in use and a payer
\* without the lamports), then the handler and the exit
CreateResult(owner, journal_entry, title, message) ==
    LET pda == find_program_address(title, owner) IN
    IF pda = <<>> THEN "MaxSeedLengthExceeded"
    ELSE IF journal_entry # pda[1] THEN "ConstraintSeeds"
    ELSE IF journal_entry \in DOMAIN store THEN "AccountAlreadyInUse"
    ELSE IF lamports[owner] < minimum_balance(Space) THEN "ResultWithNegativeLamports"
    ELSE Exit(CreateEntry(owner, title, message), Space)

create_journal_entry(owner, journal_entry, title, message) ==
    LET result == CreateResult(owner, journal_entry, title, message)
        entry == CreateEntry(owner, title, message)
    IN
    /\ nOps < MaxOps
    /\ store' = Commit(result, store, (journal_entry :> Exited(entry)) @@ store)
    /\ lamports' = Commit(result, lamports, [lamports EXCEPT ![owner] = @ - entry.lamports])
    /\ last' = [op |-> "create", owner |-> owner, journal_entry |-> journal_entry,
                ix_data |-> <<title, message>>, result |-> result]
    /\ nOps' = nOps + 1

(* ----------------------------- update ---------------------------------- *)

\* realloc = 8 + INIT_SPACE, realloc::zero = true: nothing when the account
\* has that size already, else the data are cut or extended with zeros to
\* that size and the account holds the rent of that size
Realloc(entry) ==
    IF entry.space = Space THEN entry
    ELSE [entry EXCEPT !.space = Space,
                       !.lamports = IF @ < minimum_balance(Space) THEN minimum_balance(Space) ELSE @,
                       !.data = IF Len(@) < Space THEN @ \o Zeros(Space - Len(@))
                                ELSE SubSeq(@, 1, Space)]

\* realloc::payer = owner: the lamports the owner adds for the realloc
ReallocCost(entry) == Realloc(entry).lamports - entry.lamports

\* UpdatelEntry without its seeds constraint
UpdatelEntry_NoSeeds(owner, journal_entry, title) ==
    IF journal_entry \notin DOMAIN store THEN "AccountNotInitialized" ELSE "Ok"

\* UpdatelEntry: the account is loaded (it must be initialised), then the
\* seeds constraint, then the realloc
UpdatelEntry(owner, journal_entry, title) ==
    LET pda == find_program_address(title, owner) IN
    IF journal_entry \notin DOMAIN store THEN "AccountNotInitialized"
    ELSE IF pda = <<>> THEN "MaxSeedLengthExceeded"
    ELSE IF journal_entry # pda[1] THEN "ConstraintSeeds"
    ELSE IF lamports[owner] < ReallocCost(store[journal_entry]) THEN "ResultWithNegativeLamports"
    ELSE "Ok"

\* update_journal_entry assigning the message to the title field
UpdateEntry_WritesTitle(entry, title, message) ==
    [entry EXCEPT !.title = message]

\* the JournalEntryState that update_journal_entry leaves
UpdateEntry(entry, title, message) ==
    [entry EXCEPT !.message = message]

UpdateResult(owner, journal_entry, title, message) ==
    LET accounts == UpdatelEntry(owner, journal_entry, title) IN
    IF accounts # "Ok" THEN accounts
    ELSE Exit(UpdateEntry(Realloc(store[journal_entry]), title, message), Space)

\* the accounts after the realloc, the handler and the exit of an update
UpdateStore(journal_entry, title, message) ==
    IF journal_entry \notin DOMAIN store THEN store
    ELSE [store EXCEPT ![journal_entry] = Exited(UpdateEntry(Realloc(@), title, message))]

\* the lamports after the realloc of an UpdatelEntry
ReallocLamports(owner, journal_entry) ==
    IF journal_entry \notin DOMAIN store THEN lamports
    ELSE [lamports EXCEPT ![owner] = @ - ReallocCost(store[journal_entry])]

update_journal_entry(owner, journal_entry, title, message) ==
    LET result == UpdateResult(owner, journal_entry, title, message) IN
    /\ nOps < MaxOps
    /\ store' = Commit(result, store, UpdateStore(journal_entry, title, message))
    /\ lamports' = Commit(result, lamports, ReallocLamports(owner, journal_entry))
    /\ last' = [op |-> "update", owner |-> owner, journal_entry |-> journal_entry,
                ix_data |-> <<title, message>>, result |-> result]
    /\ nOps' = nOps + 1

(* ----------------------------- delete ---------------------------------- *)

\* delete_journal_entry declares no argument, but its accounts struct,
\* UpdatelEntry, reads a title from the instruction data: data without one
\* do not deserialise
DeleteResult(owner, journal_entry, ix_data) ==
    IF Len(ix_data) = 0 THEN "InstructionDidNotDeserialize"
    ELSE LET accounts == UpdatelEntry(owner, journal_entry, ix_data[1]) IN
         IF accounts # "Ok" THEN accounts
         ELSE Exit(Realloc(store[journal_entry]), Space)

\* the accounts after a delete that passed validation: the handler body is
\* Ok(()) and UpdatelEntry has no close constraint, so the account is
\* written back as it was loaded
DeleteStore(journal_entry) ==
    IF journal_entry \notin DOMAIN store THEN store
    ELSE [store EXCEPT ![journal_entry] = Exited(Realloc(@))]

delete_journal_entry(owner, journal_entry, ix_data) ==
    LET result == DeleteResult(owner, journal_entry, ix_data) IN
    /\ nOps < MaxOps
    /\ store' = Commit(result, store, DeleteStore(journal_entry))
    /\ lamports' = Commit(result, lamports, ReallocLamports(owner, journal_entry))
    /\ last' = [op |-> "delete", owner |-> owner, journal_entry |-> journal_entry,
                ix_data |-> ix_data, result |-> result]
    /\ nOps' = nOps + 1

(* -------------------------- specification ------------------------------ *)

\* the addresses a caller passes as the journal_entry account: the one it
\* computes from its own key and the title, or the address of an entry that
\* exists
Targets(owner, title) == {seeds_hash(title, owner)} \cup DOMAIN store

\* the lamports of the wallets: Alice can pay for one entry, Bob for two
InitialLamports(owner) ==
    IF owner = Alice THEN minimum_balance(Space) ELSE 2 * minimum_balance(Space)

\* no account exists when the program is deployed
Init ==
    /\ store = <<>>
    /\ lamports = [o \in Owners |-> InitialLamports(o)]
    /\ last = [op |-> "none", owner |-> <<>>, journal_entry |-> <<>>,
               ix_data |-> <<>>, result |-> "Ok"]
    /\ nOps = 0

\* a create is sent to the address computed from the signer and the title
Create == \E o \in Owners, a \in Arguments :
              create_journal_entry(o, seeds_hash(a[1], o), a[1], a[2])

Update == \E o \in Owners, a \in Arguments : \E journal_entry \in Targets(o, a[1]) :
              update_journal_entry(o, journal_entry, a[1], a[2])

\* the instruction data of a delete hold no title, or (sent by hand) one
Delete == \E o \in Owners :
              \/ \E t \in Titles : \E a \in Targets(o, t) : delete_journal_entry(o, a, <<t>>)
              \/ \E a \in UNION {Targets(o, t) : t \in Titles} : delete_journal_entry(o, a, <<>>)

Next == Create \/ Update \/ Delete

Spec == Init /\ [][Next]_vars

(* ------------------------------ claims --------------------------------- *)

\* The errors of the program that stand for the error kinds of the
\* specification: an account that is not initialised is RecordNotFound, an
\* address that is not the one derived from the signer is NotOwner, an
\* address in use is SlotAlreadyExists, a seed or a record that is too long
\* is FieldTooLong.
RecordNotFound == {"AccountNotInitialized"}
NotOwner == {"ConstraintSeeds"}
SlotAlreadyExists == {"AccountAlreadyInUse"}
FieldTooLong == {"MaxSeedLengthExceeded", "AccountDidNotSerialize"}
AllocationFailed == {"ResultWithNegativeLamports"}

\* the last instruction was op and it succeeded / it failed
Succeeded(op) == last.op = op /\ last.result = "Ok"
Failed(op) == last.op = op /\ last.result # "Ok"

\* the title the last instruction carried (<<>> when it carried none)
HasTitle == Len(last.ix_data) > 0
LastTitle == last.ix_data[1]
LastMessage == last.ix_data[2]

\* the last instruction was addressed to derive_key(title, owner) of its own
\* title and signer
OwnKey == HasTitle /\ last.journal_entry = seeds_hash(LastTitle, last.owner)

\* the field values of a stored entry
Fields(entry) == <<entry.owner, entry.title, entry.message>>

\* C1: a record exists at a key if and only if a create for it has succeeded
\* and no delete for it has succeeded since; step by step: the record exists
\* after an instruction iff that instruction created it, or it existed
\* before and that instruction did not delete it.
C1_ExistsIffCreatedNotDeleted ==
    [][\A k \in Addresses :
          k \in DOMAIN store' <=>
              \/ (Succeeded("create") /\ last.journal_entry = k)'
              \/ (k \in DOMAIN store /\ ~(Succeeded("delete") /\ last.journal_entry = k)')]_vars

\* C2: after a successful delete the slot no longer exists, and a create of
\* the same (owner, title) right after it succeeds and stores exactly
\* (owner, title, m).
C2_DeleteThenCreate ==
    [][/\ Succeeded("delete")' => last'.journal_entry \notin DOMAIN store'
       /\ (/\ Succeeded("delete") /\ OwnKey
           /\ last'.op = "create" /\ last'.owner = last.owner
           /\ last'.journal_entry = last.journal_entry
           /\ LastTitle' = LastTitle /\ Len(LastMessage') <= MESSAGE_MAX_LEN)
          => /\ last'.result = "Ok"
             /\ Fields(store'[last'.journal_entry]) = <<last'.owner, LastTitle', LastMessage'>>]_vars

\* C3: an update or delete issued by a caller who is not the owner of the
\* live record it is addressed to fails and leaves every record unchanged;
\* when it names the record by its title it fails with NotOwner.
C3_NonOwnerCannotMutate ==
    [][(/\ last'.op \in {"update", "delete"}
        /\ last'.journal_entry \in DOMAIN store
        /\ store[last'.journal_entry].owner # last'.owner)
       => /\ last'.result # "Ok"
          /\ store' = store
          /\ (HasTitle' /\ LastTitle' = store[last'.journal_entry].title)
                 => last'.result \in NotOwner]_vars

\* C3 witness: an update by another caller, naming the record by its title,
\* has failed with NotOwner
C3_Witness ==
    /\ last.op = "update" /\ last.result \in NotOwner
    /\ last.journal_entry \in DOMAIN store
    /\ store[last.journal_entry].owner # last.owner
    /\ LastTitle = store[last.journal_entry].title

\* C4: a create for (title, owner) issued while a record exists at
\* derive_key(title, owner) fails with SlotAlreadyExists and leaves the
\* record unchanged; when it follows a successful create for the same
\* (title, owner), the record still holds the first create's message.
C4_CreateOnLiveFails ==
    [][(/\ last'.op = "create"
        /\ last'.journal_entry = seeds_hash(LastTitle', last'.owner)
        /\ last'.journal_entry \in DOMAIN store)
       => /\ last'.result \in SlotAlreadyExists
          /\ store' = store
          /\ (Succeeded("create") /\ last.journal_entry = last'.journal_entry)
                 => store'[last'.journal_entry].message = LastMessage]_vars

\* C4 witness: a second create for the same key, with another message, has
\* failed and the record holds the first message
C4_Witness ==
    /\ last.op = "create" /\ last.result \in SlotAlreadyExists /\ OwnKey
    /\ store[last.journal_entry].message # LastMessage

\* C5: an update or delete addressed to a key with no live record fails
\* (with RecordNotFound when the instruction data deserialise) and changes
\* nothing; a second delete right after a successful delete of the same
\* (title, owner) fails.
C5_AbsentFails ==
    [][/\ (last'.op \in {"update", "delete"} /\ last'.journal_entry \notin DOMAIN store)
          => /\ last'.result # "Ok"
             /\ HasTitle' => last'.result \in RecordNotFound
             /\ store' = store
       /\ (/\ Succeeded("delete") /\ last'.op = "delete"
           /\ last'.owner = last.owner /\ last'.journal_entry = last.journal_entry
           /\ last'.ix_data = last.ix_data)
          => last'.result # "Ok"]_vars

\* C6: when no record exists at derive_key(title, owner), a create with a
\* title of at most 50 bytes and a message of at most 1000 bytes succeeds
\* and the record at that key has exactly the given owner, title, message.
C6_CreateSucceeds ==
    [][(/\ last'.op = "create"
        /\ Len(LastTitle') <= TITLE_MAX_LEN /\ Len(LastMessage') <= MESSAGE_MAX_LEN
        /\ last'.journal_entry = seeds_hash(LastTitle', last'.owner)
        /\ last'.journal_entry \notin DOMAIN store)
       => /\ last'.result = "Ok"
          /\ last'.journal_entry \in DOMAIN store'
          /\ Fields(store'[last'.journal_entry]) = <<last'.owner, LastTitle', LastMessage'>>]_vars

\* C7: a successful update sets the message of the record to exactly the new
\* message and leaves its title, its owner, its existence, and every other
\* record, unchanged.
C7_UpdateFrame ==
    [][Succeeded("update")'
       => /\ DOMAIN store' = DOMAIN store
          /\ last'.journal_entry \in DOMAIN store
          /\ store'[last'.journal_entry].message = LastMessage'
          /\ store'[last'.journal_entry].title = store[last'.journal_entry].title
          /\ store'[last'.journal_entry].owner = store[last'.journal_entry].owner
          /\ \A k \in DOMAIN store \ {last'.journal_entry} : store'[k] = store[k]]_vars

\* C7 witness: an update has succeeded and the record holds its message
C7_Witness ==
    /\ Succeeded("update")
    /\ store[last.journal_entry].message = LastMessage
    /\ store[last.journal_entry].title = LastTitle

\* C8: the owner of a record is the signer of the create that made it, and
\* no instruction changes it while the record exists.
C8_OwnerNeverChanges ==
    [][\A k \in DOMAIN store' :
          IF k \in DOMAIN store
          THEN store'[k].owner = store[k].owner
          ELSE Succeeded("create")' /\ last'.journal_entry = k
               /\ store'[k].owner = last'.owner]_vars

\* C8 witness: a record made by one owner, after instructions of both
\* owners, the last one issued by the other owner
C8_Witness ==
    /\ nOps >= 3
    /\ \E k \in DOMAIN store :
          /\ last.op \in {"update", "delete"} /\ last.journal_entry = k
          /\ last.owner # store[k].owner

\* C9: every stored record has a title of at most 50 bytes and a message of
\* at most 1000 bytes.
C9_FieldBounds ==
    \A k \in DOMAIN store :
        Len(store[k].title) <= TITLE_MAX_LEN /\ Len(store[k].message) <= MESSAGE_MAX_LEN

\* C10: with no record at the key and a valid message, a create with a title
\* of exactly 50 bytes succeeds, and a create with a title of 51 bytes fails
\* with FieldTooLong and creates no record.
C10_TitleBoundary ==
    [][(/\ last'.op = "create" /\ Len(LastMessage') <= MESSAGE_MAX_LEN
        /\ last'.journal_entry = seeds_hash(LastTitle', last'.owner)
        /\ last'.journal_entry \notin DOMAIN store)
       => /\ Len(LastTitle') = TITLE_MAX_LEN
             => last'.result = "Ok" /\ last'.journal_entry \in DOMAIN store'
          /\ Len(LastTitle') = TITLE_MAX_LEN + 1
             => last'.result \in FieldTooLong /\ store' = store]_vars

\* C11: on create (no record at the key, the owner can pay) and on update
\* (of a live record by its owner), a message of exactly 1000 bytes is
\* accepted and a message of 1001 bytes is rejected with FieldTooLong and
\* changes nothing.  Stated for the titles that are valid seeds; a longer
\* title fails whatever the message.
C11_MessageBoundary ==
    [][(/\ Len(LastTitle') <= MAX_SEED_LEN
        /\ last'.journal_entry = seeds_hash(LastTitle', last'.owner)
        /\ \/ /\ last'.op = "create"
              /\ last'.journal_entry \notin DOMAIN store
              /\ lamports[last'.owner] >= minimum_balance(Space)
           \/ /\ last'.op = "update"
              /\ last'.journal_entry \in DOMAIN store)
       => /\ Len(LastMessage') = MESSAGE_MAX_LEN
             => /\ last'.result = "Ok"
                /\ store'[last'.journal_entry].message = LastMessage'
          /\ Len(LastMessage') = MESSAGE_MAX_LEN + 1
             => /\ last'.result \in FieldTooLong
                /\ store' = store]_vars

C13_DeleteRefunds ==
    [][Succeeded("delete")'
       => /\ last'.journal_entry \in DOMAIN store
          /\ last'.journal_entry \notin DOMAIN store'
          /\ lamports'[last'.owner]
                 = lamports[last'.owner] + store[last'.journal_entry].lamports]_vars

\* C14 as stated: after a successful update every byte of the slot past the
\* encoding of the new record is zero.
C14_UpdateZeroesSlot ==
    [][Succeeded("update")'
       => \A i \in (SerializedLen(store'[last'.journal_entry]) + 1)..Space :
              store'[last'.journal_entry].data[i] = 0]_vars

\* C14 amended: after a successful update the slot starts with the encoding
\* of the new record, so the message read from it is the new message, and
\* every byte past that encoding is what it was before the update.
C14_UpdateKeepsTail ==
    [][Succeeded("update")'
       => LET before == store[last'.journal_entry]
              after == store'[last'.journal_entry]
              n == SerializedLen(after)
          IN /\ SubSeq(after.data, 1, n) = Serialize(after)
             /\ SubSeq(after.data, n + 1, Space) = SubSeq(before.data, n + 1, Space)
             /\ Deserialize(after.data)[3] = LastMessage']_vars

\* C14 witness: after an update to a shorter message the slot holds bytes
\* of the previous message past the encoding of the record
C14_Witness ==
    /\ Succeeded("update")
    /\ \E i \in (SerializedLen(store[last.journal_entry]) + 1)..Space :
          store[last.journal_entry].data[i] # 0

\* C15: the slot of every record has 8 + 32 + 4 + 50 + 4 + 1000 bytes,
\* whatever the lengths of its title and message.
C15_FixedSlotSize ==
    \A k \in DOMAIN store :
        /\ store[k].space = 8 + 32 + 4 + 50 + 4 + 1000
        /\ Len(store[k].data) = 8 + 32 + 4 + 50 + 4 + 1000

\* C15 witness: a record with a short message, after an update, in a slot
\* of full size
C15_Witness ==
    /\ Succeeded("update")
    /\ Len(store[last.journal_entry].message) < MESSAGE_MAX_LEN
    /\ store[last.journal_entry].space = Space

\* The operations of the specification, create(owner, title, message),
\* update(owner, title, message) and delete(owner, title), each addressed to
\* the key derived from its title and owner.
Calls ==
    {[op |-> op, owner |-> o, title |-> a[1], message |-> a[2]] :
         op \in {"create", "update"}, o \in Owners, a \in Arguments}
    \cup [op : {"delete"}, owner : Owners, title : Titles, message : {<<>>}]

KeyOf(call) == seeds_hash(call.title, call.owner)

\* what a call returns in the current state
ResultOf(call) ==
    CASE call.op = "create" -> CreateResult(call.owner, KeyOf(call), call.title, call.message)
      [] call.op = "update" -> UpdateResult(call.owner, KeyOf(call), call.title, call.message)
      [] call.op = "delete" -> DeleteResult(call.owner, KeyOf(call), <<call.title>>)

\* the entry that a call which succeeds in the current state hands to the
\* exit (the record at its key afterwards is Exited of it)
EntryWritten(call) ==
    CASE call.op = "create" -> CreateEntry(call.owner, call.title, call.message)
      [] call.op = "update" -> UpdateEntry(Realloc(store[KeyOf(call)]), call.title, call.message)
      [] call.op = "delete" -> Realloc(store[KeyOf(call)])

\* what a call which succeeds in the current state takes from its payer (a
\* call that fails takes nothing)
PaidBy(call) ==
    IF call.op = "create" THEN minimum_balance(Space)
    ELSE ReallocCost(store[KeyOf(call)])

\* an instruction leaves alone the records at the other keys and the
\* lamports of the other wallets
FrameOfStep ==
    /\ \A k \in DOMAIN store \ {last'.journal_entry} :
           k \in DOMAIN store' /\ store'[k] = store[k]
    /\ DOMAIN store' \subseteq DOMAIN store \cup {last'.journal_entry}
    /\ \A o \in Owners \ {last'.owner} : lamports'[o] = lamports[o]

\* a call does the same before and after the instruction of this step (a
\* call that fails leaves the record at its key as it is, which FrameOfStep
\* compares)
SameOutcome(call) ==
    LET before == ResultOf(call) IN
    /\ ResultOf(call)' = before
    /\ before = "Ok" => /\ EntryWritten(call)' = EntryWritten(call)
                        /\ PaidBy(call)' = PaidBy(call)

\* C16 as stated: an operation on key k leaves the record at every other key
\* unchanged, and every operation addressed to another key has the same
\* result and the same effect whether it runs before or after it.
C16_Independent ==
    [][/\ FrameOfStep
       /\ (store' # store \/ lamports' # lamports)
          => \A call \in Calls : KeyOf(call) # last'.journal_entry => SameOutcome(call)]_vars

\* C16 amended: the same, except for two creates paid by the same owner when
\* the owner cannot pay for both.
C16_IndependentButPayer ==
    [][/\ FrameOfStep
       /\ (store' # store \/ lamports' # lamports)
          => \A call \in Calls :
                (/\ KeyOf(call) # last'.journal_entry
                 /\ ~(/\ last'.op = "create" /\ call.op = "create"
                      /\ call.owner = last'.owner
                      /\ lamports[call.owner] < 2 * minimum_balance(Space)))
                => SameOutcome(call)]_vars

\* C16 witness: an owner has created a second entry, at another key than
\* its first
C16_Witness ==
    /\ Succeeded("create")
    /\ \E k \in DOMAIN store \ {last.journal_entry} : store[k].owner = last.owner

\* C17: the key is a function of (title, owner) that separates distinct
\* inputs: two distinct (title, owner) pairs never have the same address,
\* the address the program derives for a pair is that one, and every slot
\* belongs to exactly one pair.
C17_KeysSeparate ==
    /\ \A t1 \in Titles, t2 \in Titles, o1 \in Owners, o2 \in Owners :
           /\ <<t1, o1>> # <<t2, o2>> => seeds_hash(t1, o1) # seeds_hash(t2, o2)
           /\ find_program_address(t1, o1) \in {<<>>, <<seeds_hash(t1, o1)>>}
    /\ \A k \in DOMAIN store :
           Cardinality({p \in Titles \X Owners : find_program_address(p[1], p[2]) = <<k>>}) = 1

\* C17 witness: two entries of one owner with different titles, and two
\* entries with one title of different owners, each in its own slot
C17_Witness ==
    /\ \E k1 \in DOMAIN store, k2 \in DOMAIN store :
           store[k1].owner = store[k2].owner /\ store[k1].title # store[k2].title
    /\ \E k1 \in DOMAIN store, k2 \in DOMAIN store :
           store[k1].owner # store[k2].owner /\ store[k1].title = store[k2].title

\* C18: the record stored at derive_key(t, o) has title t and owner o, in
\* its fields and in the bytes of its slot.
C18_KeyMatchesContent ==
    \A k \in DOMAIN store :
        /\ find_program_address(store[k].title, store[k].owner) = <<k>>
        /\ SubSeq(store[k].data, DISCRIMINATOR + 1, DISCRIMINATOR + PUBKEY_BYTES) = store[k].owner
        /\ SubSeq(store[k].data, DISCRIMINATOR + PUBKEY_BYTES + STRING_PREFIX + 1,
                  DISCRIMINATOR + PUBKEY_BYTES + STRING_PREFIX + Len(store[k].title))
               = store[k].title

\* C18 witness: two records, one of them updated since it was created
C18_Witness ==
    /\ Succeeded("update")
    /\ Cardinality(DOMAIN store) >= 2

\* C19: the encoding of every stored record fits in its slot, so the title
\* and the message have at most 1050 bytes together; a create or an update
\* whose record would not fit fails and stores nothing.
C19_Capacity ==
    [][/\ \A k \in DOMAIN store' :
             /\ 8 + 32 + (4 + Len(store'[k].title)) + (4 + Len(store'[k].message))
                    <= store'[k].space
             /\ store'[k].space = 8 + INIT_SPACE
             /\ Len(store'[k].title) + Len(store'[k].message) <= 1050
       /\ (\/ /\ last'.op = "create"
              /\ Len(LastTitle') + Len(LastMessage') > 1050
           \/ /\ last'.op = "update"
              /\ last'.journal_entry \in DOMAIN store
              /\ Len(store[last'.journal_entry].title) + Len(LastMessage') > 1050)
          => last'.result # "Ok" /\ store' = store]_vars

\* C19 witness: a create whose record does not fit has failed at the exit
C19_Witness ==
    /\ last.op = "create" /\ last.result = "AccountDidNotSerialize"
    /\ last.journal_entry \notin DOMAIN store

TypeOK ==
    /\ DOMAIN store \subseteq Addresses
    /\ \A k \in DOMAIN store : store[k].owner \in Owners /\ store[k].title \in Titles
                               /\ store[k].message \in Messages
    /\ lamports \in [Owners -> Nat]
    /\ nOps \in 0..MaxOps
====
